---- MODULE Spec2Model ----
(***************************************************************************)
(* State-machine model of webgpu-compute-rasterizer: the host frame loop   *)
(* of src/src/main.js (draw, addComputePass, addFullscreenPass), the GPU   *)
(* queue that executes what the host records, and the compute entry points *)
(* `clear` and `main` of src/shaders/computeRasterizer.wgsl (lines 130-279) *)
(* with their helpers.                                                      *)
(*                                                                         *)
(* f32 values are exact rationals [n, d] (d > 0): the entry points compare  *)
(* what they compute with 0 or 1 and truncate it, which the rounding of f32  *)
(* leaves unchanged for the inputs used.  Where a property is about the      *)
(* values themselves, the operations are rounded (f32, barycentric_f32).     *)
(* u32 values are integers modulo 2^U32Bits.                                 *)
(***************************************************************************)
EXTENDS Integers, Sequences, FiniteSets, TLC

(***************************************************************************)
(* Bounds of the model.                                                    *)
(***************************************************************************)
\* workgroup_size(256, 1) of both entry points and the 256 of main.js:316/322,
\* scaled down: the number of invocations per workgroup.
WorkgroupSize == 3
\* Width of u32 in bits (32 in WGSL), scaled down.
U32Bits == 10
\* How many frames the host may have submitted that the GPU has not finished.
MaxPending == 2
\* Bits of precision of an f32 (24 in WGSL), scaled down, where the rounding
\* of f32 arithmetic is modelled.
MantBits == 4
\* The longest index array handed to loadModel.
MaxIndices == 3

(***************************************************************************)
(* Program constants.                                                      *)
(***************************************************************************)
COLOR_CHANNELS == 3
NUMBERS_PER_VERTEX == 3
maxNumberOfQueries == 3
ClearValue == 255
ShadeScale == 50
ShadeOffset == 400

U32Mod == 2 ^ U32Bits
U32Max == U32Mod - 1

(***************************************************************************)
(* f32 arithmetic on exact rationals.                                      *)
(***************************************************************************)
RECURSIVE GCD(_, _)
GCD(a, b) == IF b = 0 THEN a ELSE GCD(b, a % b)
\* the rational n/d (d > 0) in lowest terms
Q(n, d) == LET g == GCD(IF n < 0 THEN 0 - n ELSE n, d)
           IN  [n |-> n \div g, d |-> d \div g]
QI(k) == [n |-> k, d |-> 1]
QAdd(a, b) == Q(a.n * b.d + b.n * a.d, a.d * b.d)
QSub(a, b) == Q(a.n * b.d - b.n * a.d, a.d * b.d)
QMul(a, b) == Q(a.n * b.n, a.d * b.d)
\* a / b for b # 0
QDiv(a, b) == IF b.n > 0 THEN Q(a.n * b.d, a.d * b.n)
                         ELSE Q((0 - a.n) * b.d, a.d * (0 - b.n))
QLt(a, b) == a.n * b.d < b.n * a.d
QLe(a, b) == a.n * b.d <= b.n * a.d
QEq(a, b) == a.n * b.d = b.n * a.d
QMin(a, b) == IF QLt(b, a) THEN b ELSE a
QMax(a, b) == IF QLt(a, b) THEN b ELSE a
QAbs(a) == IF a.n < 0 THEN Q(0 - a.n, a.d) ELSE a

\* The rounding of f32: an f32 has MantBits bits of precision; the range of
\* its exponent is not bounded.
RECURSIVE Scale(_, _, _)
\* n/d > 0 as (n'/d') * 2^e with 2^(MantBits-1) <= n'/d' < 2^MantBits
Scale(n, d, e) ==
  IF n >= d * (2 ^ MantBits) THEN Scale(n, 2 * d, e + 1)
  ELSE IF n < d * (2 ^ (MantBits - 1)) THEN Scale(2 * n, d, e - 1)
  ELSE [n |-> n, d |-> d, e |-> e]
\* the integer nearest to n/d >= 0, ties to even
RoundEven(n, d) ==
  LET fl == n \div d
      r == n % d
  IN  IF 2 * r < d THEN fl
      ELSE IF 2 * r > d THEN fl + 1
      ELSE IF fl % 2 = 0 THEN fl ELSE fl + 1
\* the f32 nearest to the rational q
f32(q) ==
  IF q.n = 0 THEN q
  ELSE LET s == Scale(IF q.n < 0 THEN 0 - q.n ELSE q.n, q.d, 0)
           m == RoundEven(s.n, s.d)
           v == IF s.e >= 0 THEN Q(m * (2 ^ s.e), 1) ELSE Q(m, 2 ^ (0 - s.e))
       IN  IF q.n < 0 THEN Q(0 - v.n, v.d) ELSE v

\* u32(f): the value conversion of WGSL, truncation toward zero clamped to the
\* range of u32.
u32(f) ==
  IF f.n <= 0 THEN 0
  ELSE IF f.n \div f.d > U32Max THEN U32Max ELSE f.n \div f.d

\* Math.ceil(a / b) for integers a >= 0, b > 0
Ceil(a, b) == (a + b - 1) \div b

(***************************************************************************)
(* Inputs: canvas sizes, transforms and vertex lists.                      *)
(***************************************************************************)
\* presentationSize = [WIDTH, HEIGHT] (main.js:36-39)
Screens == { <<1, 1>>, <<2, 2>>, <<4, 2>> }

\* A 4x4 transform, given by its four rows.  The host computes it from the
\* clock (main.js:295-307), so every frame may carry a different one.
Persp == [r0 |-> <<1, 0, 0, 0>>, r1 |-> <<0, 1, 0, 0>>,
          r2 |-> <<0, 0, 1, 0>>, r3 |-> <<0, 0, 1, 0>>]
PerspSwap == [r0 |-> <<0, 1, 0, 0>>, r1 |-> <<1, 0, 0, 0>>,
              r2 |-> <<0, 0, 1, 0>>, r3 |-> <<0, 0, 1, 0>>]
Matrices == { Persp, PerspSwap }

Vertex(x, y, z) == [x |-> x, y |-> y, z |-> z]
\* The world vertex that Persp projects to pixel (sx, sy) of a W x H canvas with
\* depth proxy w.
At(sx, sy, w, W, H) == Vertex(Q(sx * w, W), Q(sy * w, H), QI(w))

\* Vertex lists (verticesArray as a list of vertices), 3 per triangle.
SceneOverlap(W, H) ==
  << At(0, 0, 12, W, H), At(2, 0, 12, W, H), At(0, 1, 12, W, H),
     At(0, 0, 9, W, H),  At(1, 0, 9, W, H),  At(0, 1, 9, W, H) >>
SceneBeyond(W, H) ==
  << At(W - 1, 0, 10, W, H), At(W + 1, 0, 10, W, H), At(W - 1, 1, 10, W, H) >>
SceneSlanted(W, H) ==
  << At(0, 0, 12, W, H), At(2, 0, 8, W, H), At(0, 1, 8, W, H),
     At(0, 0, 10, W, H), At(2, 0, 10, W, H), At(0, 1, 10, W, H) >>
SceneNegative(W, H) ==
  << At(0 - 1, 0, 9, W, H), At(1, 0, 9, W, H), At(0 - 1, 1, 9, W, H) >>
Scenes(W, H) ==
  { SceneOverlap(W, H), SceneBeyond(W, H), SceneSlanted(W, H), SceneNegative(W, H) }

\* Vertex lists at the edge of what createComputePass can be handed.
\* The world vertex that Persp projects to the point (qx, qy), given as f32.
AtQ(qx, qy, w, W, H) == Vertex(QMul(qx, Q(w, W)), QMul(qy, Q(w, H)), QI(w))
\* a whole triangle followed by one more vertex: 12 floats
ScenePartial(W, H) ==
  << At(0, 0, 12, W, H), At(2, 0, 12, W, H), At(0, 1, 12, W, H),
     At(1, 0, 9, W, H) >>
\* a triangle of collinear vertices and a triangle of area 1/4
SceneDegenerate(W, H) ==
  << At(0, 0, 10, W, H), At(1, 0, 10, W, H), At(2, 0, 10, W, H),
     AtQ(QI(0), QI(0), 9, W, H), AtQ(Q(1, 2), QI(0), 9, W, H),
     AtQ(QI(0), QI(1), 9, W, H) >>
\* depth proxies 6 and 14: R = -100 and R = 300
SceneShades(W, H) ==
  << At(0, 0, 6, W, H), At(1, 0, 6, W, H), At(0, 1, 6, W, H),
     At(0, 0, 14, W, H), At(2, 0, 14, W, H), At(0, 1, 14, W, H) >>
\* the point (1, 1) of the triangle (0,0), (3,0), (0,5) has the weights
\* 7/15, 1/3 and 1/5, none of which is an f32
SceneFractions(W, H) ==
  << At(0, 0, 10, W, H), At(3, 0, 10, W, H), At(0, 5, 10, W, H) >>
EdgeScenes(W, H) ==
  { ScenePartial(W, H), SceneDegenerate(W, H), SceneShades(W, H),
    SceneFractions(W, H) }
\* a projected x coordinate at 2^U32Bits, beyond the range of u32
SceneFar(W, H) ==
  << At(0, 0, 10, W, H), At(U32Mod, 0, 10, W, H), At(0, 1, 10, W, H) >>

(***************************************************************************)
(* State.                                                                  *)
(***************************************************************************)
VARIABLES
  presentationSize,   \* [WIDTH, HEIGHT], fixed at start-up
  vertexBuffer,       \* verticesBuffer: the vertex list, read-only
  UBOBuffer,          \* the uniform buffer of the compute passes
  uniformBuffer,      \* the uniform buffer of the fullscreen pass
  outputColorBuffer,  \* the pixel buffer, WIDTH*HEIGHT*3 u32 entries
  queue,              \* GPU queue: operations submitted and not yet finished
  gpu,                \* what the GPU is doing with the head of the queue
  inv,                \* the invocations of the dispatch in progress
  frame,              \* progress of the frame the GPU is working on
  hostPc,             \* where the host frame loop stands
  printedTimestamps,  \* main.js:10
  queryIndex,         \* main.js:53
  queryLabelMap,      \* main.js:9
  mapped,             \* the read-back copy of readBuffer has executed
  oob,                \* kinds of access that were attempted out of bounds
  wrote,              \* rasterizer invocations of this pass that applied an atomicMin
  load                \* loadModel: its arrays, its loop counter and what it returned

vars == << presentationSize, vertexBuffer, UBOBuffer, uniformBuffer,
           outputColorBuffer, queue, gpu, inv, frame, hostPc,
           printedTimestamps, queryIndex, queryLabelMap, mapped, oob, wrote, load >>

WIDTH == presentationSize[1]
HEIGHT == presentationSize[2]
\* outputColorBufferSize / BYTES_PER_ELEMENT (main.js:214)
BufLen == WIDTH * HEIGHT * COLOR_CHANNELS
\* vertexCount of createComputePass (main.js:205), here already in vertices
vertexCount == Len(vertexBuffer)
NumTriangles == vertexCount \div 3

\* The uniforms as the shader's struct UBO lays them out (wgsl:140-145):
\* screenWidth at byte 0, screenHeight at 4, vertexCount at 8, the matrix at 16.
uniforms == UBOBuffer

(***************************************************************************)
(* Helper functions of the compute shader.                                 *)
(***************************************************************************)
Vec3(x, y, z) == [x |-> x, y |-> y, z |-> z]

get_min_max(v1, v2, v3) ==
  [x |-> QMin(QMin(v1.x, v2.x), v3.x),
   y |-> QMin(QMin(v1.y, v2.y), v3.y),
   z |-> QMax(QMax(v1.x, v2.x), v3.x),
   w |-> QMax(QMax(v1.y, v2.y), v3.y)]

\* pixelID of color_pixel: u32 arithmetic
pixelID(x, y) ==
  (((x + y * u32(uniforms.screenWidth)) % U32Mod) * 3) % U32Mod

\* What an access to element idx of the runtime-sized array `values` can do to
\* the buffer: in bounds it is applied to that element; out of bounds it is
\* either dropped or redirected to the last element of the buffer.
Targets(idx) == IF idx < BufLen THEN { idx } ELSE { BufLen, BufLen - 1 }
Apply(buf, t, val) == IF t < BufLen THEN [buf EXCEPT ![t] = val] ELSE buf

\* an atomic maximum in the place of the atomic minimum
atomicMin_max(buf, t, val) ==
  IF t < BufLen /\ val > buf[t] THEN [buf EXCEPT ![t] = val] ELSE buf

\* atomicMin(&outputColorBuffer.values[idx], val)
atomicMin(buf, t, val) ==
  IF t < BufLen /\ val < buf[t] THEN [buf EXCEPT ![t] = val] ELSE buf

\* an atomic addition in the place of the atomic store
atomicStore_add(buf, t, val) ==
  IF t < BufLen THEN [buf EXCEPT ![t] = (buf[t] + val) % U32Mod] ELSE buf

\* atomicStore(&outputColorBuffer.values[idx], val)
atomicStore(buf, t, val) == Apply(buf, t, val)

cross(a, b) ==
  Vec3(QSub(QMul(a.y, b.z), QMul(a.z, b.y)),
       QSub(QMul(a.z, b.x), QMul(a.x, b.z)),
       QSub(QMul(a.x, b.y), QMul(a.y, b.x)))

barycentric(v1, v2, v3, p) ==
  LET u == cross(Vec3(QSub(v3.x, v1.x), QSub(v2.x, v1.x), QSub(v1.x, p.x)),
                 Vec3(QSub(v3.y, v1.y), QSub(v2.y, v1.y), QSub(v1.y, p.y)))
  IN  IF QLt(QAbs(u.z), QI(1))
      THEN Vec3(QI(0 - 1), QI(1), QI(1))
      ELSE Vec3(QSub(QI(1), QDiv(QAdd(u.x, u.y), u.z)),
                QDiv(u.y, u.z),
                QDiv(u.x, u.z))

\* draw_triangle without the test of the weights
Inside_always(bc) == TRUE

\* the test of draw_triangle rejecting a weight of 0 as well
Inside_strict(bc) ==
  QLt(QI(0), bc.x) /\ QLt(QI(0), bc.y) /\ QLt(QI(0), bc.z)

\* the test of draw_triangle that lets color_pixel be called (wgsl:213-216)
Inside(bc) == ~ (QLt(bc.x, QI(0)) \/ QLt(bc.y, QI(0)) \/ QLt(bc.z, QI(0)))

\* R = (v1.z * 50.0) - 400.0, converted by u32(R) at the call of color_pixel
Shade(v1) == u32(QSub(QMul(v1.z, QI(ShadeScale)), QI(ShadeOffset)))

\* one row of modelViewProjectionMatrix * vec4(v.x, v.y, v.z, 1.0)
MatRow(r, v) ==
  QAdd(QAdd(QMul(QI(r[1]), v.x), QMul(QI(r[2]), v.y)),
       QAdd(QMul(QI(r[3]), v.z), QI(r[4])))

project(v) ==
  LET m == uniforms.modelViewProjectionMatrix
      sx == MatRow(m.r0, v)
      sy == MatRow(m.r1, v)
      sw == MatRow(m.r3, v)
  IN  Vec3(QMul(QDiv(sx, sw), uniforms.screenWidth),
           QMul(QDiv(sy, sw), uniforms.screenHeight),
           sw)

\* The loop bounds of draw_triangle for the projected triangle tri.
Box(tri) ==
  LET mm == get_min_max(tri[1], tri[2], tri[3])
  IN  [startX |-> u32(mm.x), startY |-> u32(mm.y),
       endX |-> u32(mm.z), endY |-> u32(mm.w)]

(***************************************************************************)
(* loadModel (src/src/loadModel.js).                                       *)
(***************************************************************************)
\* what a Float32Array holds for a value that is not a number
NaN == [n |-> 0, d |-> 0]
\* arr[k] of JavaScript, k counted from 0: undefined past the end, which a
\* Float32Array stores as NaN
Elem(arr, k) == IF k < Len(arr) THEN arr[k + 1] ELSE NaN

\* the body of the loop with index1 = i * 3: the positions taken in their own
\* order, without the index array
pushVertex_unindexed(positions, indices, finalPositions, i) ==
  finalPositions \o << Elem(positions, i * 3 + 0), Elem(positions, i * 3 + 1),
                       Elem(positions, i * 3 + 2) >>

\* the body of the loop of loadModel (loadModel.js:13-19): finalPositions
\* after the three push of iteration i
pushVertex(positions, indices, finalPositions, i) ==
  LET index1 == Elem(indices, i) * 3 + 0
      index2 == Elem(indices, i) * 3 + 1
      index3 == Elem(indices, i) * 3 + 2
  IN  finalPositions \o << Elem(positions, index1), Elem(positions, index2),
                           Elem(positions, index3) >>

\* new Float32Array(arr): every number converted to f32
Float32Array(arr) == [k \in DOMAIN arr |-> f32(arr[k])]

\* loadModel has returned and its locals are gone
NotLoading == [st |-> "returned", positions |-> << >>, indices |-> << >>,
               finalPositions |-> << >>, i |-> 0, verticesArray |-> << >>]

\* the arrays of the POSITION attribute that loadModel is handed: 3 floats per
\* vertex, each of them an f32
PositionArrays ==
  { << QI(1), QI(2), QI(3), QI(4), QI(5), QI(6), QI(7), QI(8), QI(9) >>,
    << Q(1, 2), QI(0 - 1), QI(0), QI(3), Q(0 - 3, 4), QI(12) >> }
\* the index arrays of a model with nv vertices, up to MaxIndices indices
IndexArrays(nv) ==
  UNION { [1 .. k -> 0 .. (nv - 1)] : k \in 0 .. MaxIndices }

\* one iteration of the loop of loadModel (loadModel.js:12-20)
loadModelLoop ==
  /\ load.st = "loop"
  /\ load.i < Len(load.indices)
  /\ load' = [load EXCEPT
                !.finalPositions = pushVertex(load.positions, load.indices, @, load.i),
                !.i = @ + 1]
  /\ UNCHANGED << presentationSize, vertexBuffer, UBOBuffer, uniformBuffer,
                  outputColorBuffer, queue, gpu, inv, frame, hostPc,
                  printedTimestamps, queryIndex, queryLabelMap, mapped, oob,
                  wrote >>

\* the loop of loadModel is left and the Float32Array is returned
\* (loadModel.js:21), which createComputePass copies into verticesBuffer
\* (main.js:48-50, 211), an array of Vertex for the shader (wgsl:134-138)
loadModelReturn ==
  /\ load.st = "loop"
  /\ load.i >= Len(load.indices)
  /\ LET verticesArray == Float32Array(load.finalPositions)
     IN  /\ load' = [load EXCEPT !.st = "returned", !.verticesArray = verticesArray]
         /\ vertexBuffer' =
              [k \in 1 .. (Len(verticesArray) \div NUMBERS_PER_VERTEX) |->
                 Vertex(verticesArray[3 * k - 2], verticesArray[3 * k - 1],
                        verticesArray[3 * k])]
  /\ UNCHANGED << presentationSize, UBOBuffer, uniformBuffer,
                  outputColorBuffer, queue, gpu, inv, frame, hostPc,
                  printedTimestamps, queryIndex, queryLabelMap, mapped, oob,
                  wrote >>

(***************************************************************************)
(* Initial state: init() has run up to the first call of draw().           *)
(***************************************************************************)
Idle == [st |-> "todo", x |-> 0, y |-> 0, c |-> 0, tri |-> << >>]
NoFrame == [cleared |-> FALSE, rastered |-> FALSE, displayed |-> FALSE]

\* Buffers are created zero-filled; the host never writes bytes 8..15 of
\* UBOBuffer (main.js:310-313).
InitCommon ==
  /\ presentationSize \in Screens
  /\ vertexBuffer \in Scenes(presentationSize[1], presentationSize[2])
  /\ uniformBuffer = << 0, 0 >>
  /\ outputColorBuffer = [k \in 0 .. (BufLen - 1) |-> 0]
  /\ queue = << >>
  /\ gpu = "idle"
  /\ inv = << >>
  /\ frame = NoFrame
  /\ hostPc = "draw"
  /\ printedTimestamps = FALSE
  /\ queryIndex = 0
  /\ queryLabelMap = [q \in {} |-> ""]
  /\ mapped = FALSE
  /\ oob = {}
  /\ wrote = {}
  /\ load = NotLoading

ZeroMatrix == [r0 |-> <<0, 0, 0, 0>>, r1 |-> <<0, 0, 0, 0>>,
               r2 |-> <<0, 0, 0, 0>>, r3 |-> <<0, 0, 0, 0>>]

Init ==
  /\ InitCommon
  /\ UBOBuffer = [screenWidth |-> QI(0), screenHeight |-> QI(0),
                  vertexCount |-> QI(0),
                  modelViewProjectionMatrix |-> ZeroMatrix]

(***************************************************************************)
(* Host: main.js.                                                          *)
(***************************************************************************)
Op(op, n, m) == [op |-> op, n |-> n, m |-> m]

\* timestamp without the wrap of queryIndex (main.js:58)
timestamp_noWrap(q, labels, label) ==
  [cmd |-> Op("ts", q, << >>),
   labels |-> [k \in (DOMAIN labels) \cup {q} |-> IF k = q THEN label ELSE labels[k]],
   q |-> q + 1]

\* timestamp(encoder, label): the query index written, and the state after
timestamp(q, labels, label) ==
  [cmd |-> Op("ts", q, << >>),
   labels |-> [k \in (DOMAIN labels) \cup {q} |-> IF k = q THEN label ELSE labels[k]],
   q |-> IF q + 1 >= maxNumberOfQueries THEN 0 ELSE q + 1]

\* addComputePass recording the rasterizer dispatch before the clear dispatch
addComputePass_rasterFirst(m) ==
  [writes |-> << Op("writeUBO", 0, m) >>,
   passes |-> << Op("raster", Ceil(vertexCount, 3 * WorkgroupSize), << >>),
                 Op("clear", Ceil(WIDTH * HEIGHT, WorkgroupSize), << >>) >>]

\* addComputePass rounding the number of clear workgroups down
addComputePass_floor(m) ==
  [writes |-> << Op("writeUBO", 0, m) >>,
   passes |-> << Op("clear", (WIDTH * HEIGHT) \div WorkgroupSize, << >>),
                 Op("raster", Ceil(vertexCount, 3 * WorkgroupSize), << >>) >>]

\* addComputePass recording the rasterizer dispatch only (as part_001:234-248)
addComputePass_noClear(m) ==
  [writes |-> << Op("writeUBO", 0, m) >>,
   passes |-> << Op("raster", Ceil(vertexCount, 3 * WorkgroupSize), << >>) >>]

\* addComputePass: the queue writes it makes at once and the passes it records
addComputePass(m) ==
  [writes |-> << Op("writeUBO", 0, m) >>,
   passes |-> << Op("clear", Ceil(WIDTH * HEIGHT, WorkgroupSize), << >>),
                 Op("raster", Ceil(vertexCount, 3 * WorkgroupSize), << >>) >>]

addFullscreenPass ==
  [writes |-> << Op("writeFS", 0, << >>) >>,
   passes |-> << Op("display", 0, << >>) >>]

\* the command buffer of draw with the fullscreen pass recorded first
recordFrame_displayFirst(ts0, compute, ts1, fullscreen, ts2) ==
  << ts0 >> \o fullscreen \o << ts1 >> \o compute
  \o << ts2, Op("resolve", 0, << >>) >>

\* the command buffer that draw records between its timestamps and submits
\* (main.js:64-77)
recordFrame(ts0, compute, ts1, fullscreen, ts2) ==
  << ts0 >> \o compute \o << ts1 >> \o fullscreen
  \o << ts2, Op("resolve", 0, << >>) >>

Pending == Cardinality({k \in DOMAIN queue : queue[k].op = "resolve"})

\* draw(): from createCommandEncoder to the await of the first frame or to
\* requestAnimationFrame
draw ==
  /\ hostPc = "draw"
  /\ Pending < MaxPending
  /\ \E m \in Matrices :
       LET t0 == timestamp(queryIndex, queryLabelMap, "undefined")
           cp == addComputePass(m)
           t1 == timestamp(t0.q, t0.labels, "compute pass")
           fp == addFullscreenPass
           t2 == timestamp(t1.q, t1.labels, "fullscreen pass")
           commands == recordFrame(t0.cmd, cp.passes, t1.cmd, fp.passes, t2.cmd)
       IN  /\ queue' = queue \o cp.writes \o fp.writes \o commands
                       \o (IF printedTimestamps THEN << >>
                           ELSE << Op("copy", 0, << >>) >>)
           /\ queryIndex' = t2.q
           /\ queryLabelMap' = t2.labels
  /\ hostPc' = IF printedTimestamps THEN "draw" ELSE "await"
  /\ UNCHANGED << presentationSize, vertexBuffer, UBOBuffer, uniformBuffer,
                  outputColorBuffer, gpu, inv, frame, printedTimestamps,
                  mapped, oob, wrote, load >>

\* draw returning after the read-back without requesting the next frame
readBuffer_noRequest ==
  /\ hostPc = "await"
  /\ mapped
  /\ printedTimestamps' = TRUE
  /\ UNCHANGED << presentationSize, vertexBuffer, UBOBuffer, uniformBuffer,
                  outputColorBuffer, queue, gpu, inv, frame, hostPc,
                  queryIndex, queryLabelMap, mapped, oob, wrote, load >>

\* the await of readBuffer resolves, the timestamps are printed and the next
\* frame is requested (main.js:82-91)
readBuffer ==
  /\ hostPc = "await"
  /\ mapped
  /\ printedTimestamps' = TRUE
  /\ hostPc' = "draw"
  /\ UNCHANGED << presentationSize, vertexBuffer, UBOBuffer, uniformBuffer,
                  outputColorBuffer, queue, gpu, inv, frame, queryIndex,
                  queryLabelMap, mapped, oob, wrote, load >>

(***************************************************************************)
(* GPU queue: the submitted operations execute one after the other, each   *)
(* one starting when the one before it has completed.                      *)
(***************************************************************************)
Front == queue[1]
HeadIs(ops) == queue # << >> /\ Front.op \in ops
Pop == queue' = Tail(queue)

\* device.queue.writeBuffer(UBOBuffer, 0, [WIDTH, HEIGHT]) and
\* device.queue.writeBuffer(UBOBuffer, 16, modelViewProjectionMatrix)
writeUBO ==
  /\ gpu = "idle"
  /\ HeadIs({"writeUBO"})
  /\ UBOBuffer' = [UBOBuffer EXCEPT !.screenWidth = QI(WIDTH),
                                    !.screenHeight = QI(HEIGHT),
                                    !.modelViewProjectionMatrix = Front.m]
  /\ frame' = NoFrame
  /\ Pop
  /\ UNCHANGED << presentationSize, vertexBuffer, uniformBuffer,
                  outputColorBuffer, gpu, inv, hostPc, printedTimestamps,
                  queryIndex, queryLabelMap, mapped, oob, wrote, load >>

\* device.queue.writeBuffer(uniformBuffer, 0, presentationSize)
writeFS ==
  /\ gpu = "idle"
  /\ HeadIs({"writeFS"})
  /\ uniformBuffer' = << WIDTH, HEIGHT >>
  /\ Pop
  /\ UNCHANGED << presentationSize, vertexBuffer, UBOBuffer,
                  outputColorBuffer, gpu, inv, frame, hostPc,
                  printedTimestamps, queryIndex, queryLabelMap, mapped, oob,
                  wrote, load >>

\* writeTimestamp and resolveQuerySet change nothing the model keeps
writeTimestamp ==
  /\ gpu = "idle"
  /\ HeadIs({"ts", "resolve"})
  /\ Pop
  /\ UNCHANGED << presentationSize, vertexBuffer, UBOBuffer, uniformBuffer,
                  outputColorBuffer, gpu, inv, frame, hostPc,
                  printedTimestamps, queryIndex, queryLabelMap, mapped, oob,
                  wrote, load >>

\* copyBufferToBuffer of readBuffer, after which mapAsync can resolve
copyBufferToBuffer ==
  /\ gpu = "idle"
  /\ HeadIs({"copy"})
  /\ mapped' = TRUE
  /\ Pop
  /\ UNCHANGED << presentationSize, vertexBuffer, UBOBuffer, uniformBuffer,
                  outputColorBuffer, gpu, inv, frame, hostPc,
                  printedTimestamps, queryIndex, queryLabelMap, oob, wrote,
                  load >>

\* dispatchWorkgroups(n): n * WorkgroupSize invocations, ids from 0
dispatchWorkgroups ==
  /\ gpu = "idle"
  /\ HeadIs({"clear", "raster"})
  /\ gpu' = "running"
  /\ inv' = [i \in 0 .. (Front.n * WorkgroupSize - 1) |-> Idle]
  /\ wrote' = IF Front.op = "raster" THEN {} ELSE wrote
  /\ UNCHANGED << presentationSize, vertexBuffer, UBOBuffer, uniformBuffer,
                  outputColorBuffer, queue, frame, hostPc, printedTimestamps,
                  queryIndex, queryLabelMap, mapped, oob, load >>

\* every invocation of the dispatch has returned
dispatchDone ==
  /\ gpu = "running"
  /\ \A i \in DOMAIN inv : inv[i].st = "done"
  /\ gpu' = "idle"
  /\ inv' = << >>
  /\ frame' = IF Front.op = "clear" THEN [frame EXCEPT !.cleared = TRUE]
                                   ELSE [frame EXCEPT !.rastered = TRUE]
  /\ Pop
  /\ UNCHANGED << presentationSize, vertexBuffer, UBOBuffer, uniformBuffer,
                  outputColorBuffer, hostPc, printedTimestamps, queryIndex,
                  queryLabelMap, mapped, oob, wrote, load >>

\* the fullscreen render pass: frag_main reads the pixel buffer from
\* displayBegin to displayEnd
displayBegin ==
  /\ gpu = "idle"
  /\ HeadIs({"display"})
  /\ gpu' = "display"
  /\ UNCHANGED << presentationSize, vertexBuffer, UBOBuffer, uniformBuffer,
                  outputColorBuffer, queue, inv, frame, hostPc,
                  printedTimestamps, queryIndex, queryLabelMap, mapped, oob,
                  wrote, load >>

displayEnd ==
  /\ gpu = "display"
  /\ gpu' = "idle"
  /\ frame' = [frame EXCEPT !.displayed = TRUE]
  /\ Pop
  /\ UNCHANGED << presentationSize, vertexBuffer, UBOBuffer, uniformBuffer,
                  outputColorBuffer, inv, hostPc, printedTimestamps,
                  queryIndex, queryLabelMap, mapped, oob, wrote, load >>

(***************************************************************************)
(* Entry point `clear` (wgsl:269-279): one invocation, three stores.       *)
(***************************************************************************)
\* the buffers that the three stores of invocation id can leave
clearResults(buf, id) ==
  LET index == (id * 3) % U32Mod
      s0 == { atomicStore(buf, t, ClearValue) : t \in Targets(index) }
      s1 == UNION { { atomicStore(b, t, ClearValue) :
                        t \in Targets((index + 1) % U32Mod) } : b \in s0 }
  IN  UNION { { atomicStore(b, t, ClearValue) :
                  t \in Targets((index + 2) % U32Mod) } : b \in s1 }

clear(i) ==
  /\ gpu = "running"
  /\ HeadIs({"clear"})
  /\ inv[i].st = "todo"
  /\ outputColorBuffer' \in clearResults(outputColorBuffer, i)
  /\ oob' = IF ((i * 3) % U32Mod) + 2 >= BufLen THEN oob \cup {"clear"} ELSE oob
  /\ inv' = [inv EXCEPT ![i].st = "done"]
  /\ UNCHANGED << presentationSize, vertexBuffer, UBOBuffer, uniformBuffer,
                  queue, gpu, frame, hostPc, printedTimestamps, queryIndex,
                  queryLabelMap, mapped, wrote, load >>

(***************************************************************************)
(* Entry point `main` (wgsl:241-267) with draw_triangle and color_pixel.   *)
(* An invocation takes one step per access to shared memory: the steps in  *)
(* between touch only its own variables.                                   *)
(***************************************************************************)
\* main without its early exit (as wgsl:105-118)
OutOfVertices_never(index) == FALSE

\* the early exit of main: index >= u32(uniforms.vertexCount)
OutOfVertices(index) == index >= u32(uniforms.vertexCount)

\* vertexBuffer.values[k]; an index past the end reads the last vertex
LoadVertex(k) ==
  IF k < Len(vertexBuffer) THEN vertexBuffer[k + 1]
                           ELSE vertexBuffer[Len(vertexBuffer)]

Projected(tri) == << project(tri[1]), project(tri[2]), project(tri[3]) >>

\* the candidate pixel (x, y) passes the test of draw_triangle
Covers(tri, x, y) ==
  LET p == Projected(tri)
  IN  Inside(barycentric(p[1], p[2], p[3], [x |-> QI(x), y |-> QI(y)]))

\* the loop headers of draw_triangle: the invocation state after the body
\* was run for (s.x, s.y)
NextPixel(s) ==
  LET box == Box(Projected(s.tri))
      y1 == (s.y + 1) % U32Mod
      x1 == (s.x + 1) % U32Mod
  IN  IF y1 <= box.endY
        THEN [s EXCEPT !.y = y1, !.c = 0]
        ELSE IF x1 <= box.endX /\ box.startY <= box.endY
          THEN [s EXCEPT !.x = x1, !.y = box.startY, !.c = 0]
          ELSE [s EXCEPT !.st = "done", !.c = 0]

\* main up to the first iteration of the loops of draw_triangle
Enter(i) ==
  LET index == (i * 3) % U32Mod
      tri == << LoadVertex(index), LoadVertex(index + 1), LoadVertex(index + 2) >>
      box == Box(Projected(tri))
  IN  IF OutOfVertices(index)
        THEN [Idle EXCEPT !.st = "done"]
        ELSE IF box.startX <= box.endX /\ box.startY <= box.endY
          THEN [st |-> "loop", x |-> box.startX, y |-> box.startY, c |-> 0,
                tri |-> tri]
          ELSE [Idle EXCEPT !.st = "done", !.tri = tri]

\* color_pixel lowering the three channels of its pixel in one step
color_pixel_group(buf, t, shade) ==
  IF t % COLOR_CHANNELS = 0
    THEN atomicMin(atomicMin(atomicMin(buf, t, shade), t + 1, shade), t + 2, shade)
    ELSE buf

\* color_pixel writing the channel with a plain store (wgsl:170-172)
color_pixel_store(buf, t, shade) == atomicStore(buf, t, shade)

\* color_pixel(x, y, r, g, b) has its channel-c atomicMin applied to target t
color_pixel(buf, t, shade) == atomicMin(buf, t, shade)

main(i) ==
  /\ gpu = "running"
  /\ HeadIs({"raster"})
  /\ inv[i].st # "done"
  /\ LET s == inv[i]
         index == (i * 3) % U32Mod
     IN  IF s.st = "todo"
           THEN /\ inv' = [inv EXCEPT ![i] = Enter(i)]
                /\ oob' = IF ~ OutOfVertices(index) /\ index + 2 >= Len(vertexBuffer)
                            THEN oob \cup {"vertex"} ELSE oob
                /\ UNCHANGED << outputColorBuffer, wrote >>
           ELSE IF s.c = 0 /\ ~ Covers(s.tri, s.x, s.y)
             THEN /\ inv' = [inv EXCEPT ![i] = NextPixel(s)]
                  /\ UNCHANGED << outputColorBuffer, oob, wrote >>
             ELSE LET id == (pixelID(s.x, s.y) + s.c) % U32Mod
                      shade == Shade(project(s.tri[1]))
                  IN  /\ \E t \in Targets(id) :
                           outputColorBuffer' = color_pixel(outputColorBuffer, t, shade)
                      /\ oob' = IF id >= BufLen THEN oob \cup {"raster"} ELSE oob
                      /\ wrote' = wrote \cup {i}
                      /\ inv' = [inv EXCEPT ![i] =
                                   IF s.c = 2 THEN NextPixel(s)
                                              ELSE [s EXCEPT !.c = s.c + 1]]
  /\ UNCHANGED << presentationSize, vertexBuffer, UBOBuffer, uniformBuffer,
                  queue, gpu, frame, hostPc, printedTimestamps, queryIndex,
                  queryLabelMap, mapped, load >>

(***************************************************************************)
(* Specifications.                                                         *)
(***************************************************************************)
Next ==
  \/ draw
  \/ readBuffer
  \/ writeUBO
  \/ writeFS
  \/ writeTimestamp
  \/ copyBufferToBuffer
  \/ dispatchWorkgroups
  \/ dispatchDone
  \/ displayBegin
  \/ displayEnd
  \/ \E i \in DOMAIN inv : clear(i)
  \/ \E i \in DOMAIN inv : main(i)

\* The program as main.js sets it up.
Spec == Init /\ [][Next]_vars

\* The compute shader bound to a uniform buffer whose vertexCount member holds
\* the number of vertices of the vertex list.
InitKernel ==
  /\ InitCommon
  /\ UBOBuffer = [screenWidth |-> QI(0), screenHeight |-> QI(0),
                  vertexCount |-> QI(vertexCount),
                  modelViewProjectionMatrix |-> ZeroMatrix]

SpecKernel == InitKernel /\ [][Next]_vars

\* The state after construction for a vertex list of the set scenes, with the
\* uniform buffer bound as for SpecKernel.
InitScenes(scenes) ==
  /\ presentationSize \in Screens
  /\ vertexBuffer \in scenes
  /\ uniformBuffer = << 0, 0 >>
  /\ outputColorBuffer = [k \in 0 .. (BufLen - 1) |-> 0]
  /\ queue = << >>
  /\ gpu = "idle"
  /\ inv = << >>
  /\ frame = NoFrame
  /\ hostPc = "draw"
  /\ printedTimestamps = FALSE
  /\ queryIndex = 0
  /\ queryLabelMap = [q \in {} |-> ""]
  /\ mapped = FALSE
  /\ oob = {}
  /\ wrote = {}
  /\ load = NotLoading
  /\ UBOBuffer = [screenWidth |-> QI(0), screenHeight |-> QI(0),
                  vertexCount |-> QI(vertexCount),
                  modelViewProjectionMatrix |-> ZeroMatrix]

\* The compute shader on the vertex lists of EdgeScenes.
InitEdge == InitScenes(EdgeScenes(presentationSize[1], presentationSize[2]))

SpecEdge == InitEdge /\ [][Next]_vars

\* The compute shader on SceneOverlap and on SceneFar.
InitFar ==
  InitScenes({ SceneOverlap(presentationSize[1], presentationSize[2]),
               SceneFar(presentationSize[1], presentationSize[2]) })

SpecFar == InitFar /\ [][Next]_vars

\* init() at its call of loadModel (main.js:48), with the arrays of the model
\* read: the buffers of the passes are not created yet.
InitLoad ==
  /\ presentationSize \in Screens
  /\ vertexBuffer = << >>
  /\ UBOBuffer = [screenWidth |-> QI(0), screenHeight |-> QI(0),
                  vertexCount |-> QI(0),
                  modelViewProjectionMatrix |-> ZeroMatrix]
  /\ uniformBuffer = << 0, 0 >>
  /\ outputColorBuffer = << >>
  /\ queue = << >>
  /\ gpu = "idle"
  /\ inv = << >>
  /\ frame = NoFrame
  /\ hostPc = "load"
  /\ printedTimestamps = FALSE
  /\ queryIndex = 0
  /\ queryLabelMap = [q \in {} |-> ""]
  /\ mapped = FALSE
  /\ oob = {}
  /\ wrote = {}
  /\ \E positions \in PositionArrays :
       \E indices \in IndexArrays(Len(positions) \div NUMBERS_PER_VERTEX) :
         load = [st |-> "loop", positions |-> positions, indices |-> indices,
                 finalPositions |-> << >>, i |-> 0, verticesArray |-> << >>]

NextLoad ==
  \/ loadModelLoop
  \/ loadModelReturn

\* loadModel on the models of PositionArrays and IndexArrays.
SpecLoad == InitLoad /\ [][NextLoad]_vars

\* The program as main.js sets it up, in a browser that goes on running what is
\* ready to run: the callbacks of the host and the work of the GPU queue.
SpecLive == Init /\ [][Next]_vars /\ WF_vars(Next)

TypeOK ==
  /\ \A k \in DOMAIN outputColorBuffer : outputColorBuffer[k] \in 0 .. U32Max
  /\ gpu \in {"idle", "running", "display"}
  /\ hostPc \in {"load", "draw", "await"}

(***************************************************************************)
(* Vocabulary of the properties.                                           *)
(***************************************************************************)
Channels == 0 .. (COLOR_CHANNELS - 1)
Pixels == (0 .. (WIDTH - 1)) \X (0 .. (HEIGHT - 1))
InRange(x, y) == x < u32(uniforms.screenWidth) /\ y < u32(uniforms.screenHeight)
\* the entry of channel c of the in-range pixel p
Entry(p, c) == (p[1] + p[2] * WIDTH) * COLOR_CHANNELS + c

TriangleIds == 0 .. (NumTriangles - 1)
Triangle(k) == << vertexBuffer[3 * k + 1], vertexBuffer[3 * k + 2], vertexBuffer[3 * k + 3] >>
ShadeOf(k) == Shade(project(Triangle(k)[1]))
\* the color_pixel calls that draw_triangle makes for triangle k
Calls(k) ==
  LET box == Box(Projected(Triangle(k)))
  IN  { q \in (box.startX .. box.endX) \X (box.startY .. box.endY) :
          Covers(Triangle(k), q[1], q[2]) }
AllCallsInRange == \A k \in TriangleIds : \A q \in Calls(k) : InRange(q[1], q[2])
\* the in-canvas pixels whose centre triangle k contains
Covering_k(k) == { p \in Pixels : Covers(Triangle(k), p[1], p[2]) }
\* the triangles that contain the centre of pixel p
Covering(p) == { k \in TriangleIds : Covers(Triangle(k), p[1], p[2]) }
MinOf(S) == CHOOSE v \in S : \A w \in S : v <= w
\* this step is one of invocation i of the rasterizer dispatch: no other step
\* of a running dispatch changes what the invocation holds
Stepped(i) ==
  gpu = "running" /\ HeadIs({"raster"}) /\ gpu' = "running" /\ inv'[i] # inv[i]
\* the rasterizer pass of the frame has completed and its uniforms are in place
PassDone == frame.cleared /\ frame.rastered

(***************************************************************************)
(* C1  Compositing converges to the minimum.                               *)
(***************************************************************************)
\* C1: once every color_pixel call of a pass made of in-range calls has
\* completed after a clear, each channel of each pixel equals the minimum of
\* 255 and the shade values proposed for that pixel, whatever the order and
\* the interleaving of the per-channel atomicMin steps were.
CompositeConvergesToMin ==
  (PassDone /\ AllCallsInRange) =>
    \A p \in Pixels : \A c \in Channels :
      outputColorBuffer[Entry(p, c)] =
        MinOf({ClearValue} \cup { ShadeOf(k) : k \in { j \in TriangleIds : p \in Calls(j) } })

\* two triangles proposed different shades for one pixel and the pass is over
CompositeContested ==
  /\ PassDone
  /\ AllCallsInRange
  /\ \E p \in Pixels : \E j, k \in TriangleIds :
       /\ p \in Calls(j) /\ p \in Calls(k)
       /\ ShadeOf(j) < ShadeOf(k)
       /\ ShadeOf(k) < ClearValue
       /\ outputColorBuffer[Entry(p, 0)] = ShadeOf(j)

(***************************************************************************)
(* C2  The result of one frame pass.                                       *)
(***************************************************************************)
\* C2: after the clear pass and the rasterizer pass of a frame, a pixel inside
\* no triangle holds (255, 255, 255) and a pixel inside at least one triangle
\* holds, in all three channels, the minimum shade of the triangles covering it.
FramePassShowsTriangles ==
  PassDone =>
    \A p \in Pixels : \A c \in Channels :
      outputColorBuffer[Entry(p, c)] =
        IF Covering(p) = {} THEN ClearValue
                            ELSE MinOf({ ShadeOf(k) : k \in Covering(p) })

(***************************************************************************)
(* C3  Nearest fragment wins.                                              *)
(***************************************************************************)
\* the depth proxy of triangle k interpolated at pixel p
DepthAt(k, p) ==
  LET v == Projected(Triangle(k))
      bc == barycentric(v[1], v[2], v[3], [x |-> QI(p[1]), y |-> QI(p[2])])
  IN  QAdd(QAdd(QMul(bc.x, v[1].z), QMul(bc.y, v[2].z)), QMul(bc.z, v[3].z))

\* C3: when two triangles cover a pixel, the pixel ends the frame with the
\* shade of the one that is closer to the camera at that pixel.
NearestFragmentWins ==
  (PassDone /\ AllCallsInRange) =>
    \A p \in Pixels : \A j, k \in Covering(p) :
      (Covering(p) = {j, k} /\ QLt(DepthAt(j, p), DepthAt(k, p))) =>
        \A c \in Channels : outputColorBuffer[Entry(p, c)] = ShadeOf(j)

(***************************************************************************)
(* C4  The clear pass completes before the rasterizer pass composites.     *)
(***************************************************************************)
\* C4: while the rasterizer dispatch of a frame runs, and so whenever one of
\* its invocations applies an atomicMin, the clear dispatch of that frame has
\* completed: every clear invocation has made its stores.
ClearBeforeComposite ==
  (gpu = "running" /\ HeadIs({"raster"})) => (frame.cleared /\ ~ frame.rastered)

\* an atomicMin of the rasterizer pass has been applied while it is running
CompositeRunning ==
  /\ gpu = "running"
  /\ HeadIs({"raster"})
  /\ wrote # {}
  /\ frame.cleared

(***************************************************************************)
(* C5  The display pass reads a finished frame.                            *)
(***************************************************************************)
\* C5: while the fullscreen pass reads the pixel buffer, the clear and the
\* rasterizer dispatch of that frame have completed, no compute invocation is
\* in flight, and no step changes the buffer, the next frame's included.
DisplayReadsFinishedFrame ==
  /\ [](gpu = "display" => (frame.cleared /\ frame.rastered /\ inv = << >>))
  /\ [][gpu = "display" => outputColorBuffer' = outputColorBuffer]_vars

\* the display pass is reading while the next frame is already submitted
DisplayWithNextFrameQueued ==
  /\ gpu = "display"
  /\ frame.rastered
  /\ Pending = MaxPending
  /\ \E k \in DOMAIN queue : queue[k].op = "clear"

(***************************************************************************)
(* C6  The clear pass fills the whole buffer.                              *)
(***************************************************************************)
\* the clear dispatch of the frame has completed and the rasterizer dispatch
\* has not started
ClearJustDone ==
  frame.cleared /\ ~ frame.rastered /\ gpu = "idle" /\ HeadIs({"raster"})

\* C6: when the clear pass has completed, the pixel buffer has
\* WIDTH*HEIGHT*3 entries and every one of them equals 255.
ClearFillsBuffer ==
  ClearJustDone =>
    /\ DOMAIN outputColorBuffer = 0 .. (WIDTH * HEIGHT * 3 - 1)
    /\ \A k \in DOMAIN outputColorBuffer : outputColorBuffer[k] = ClearValue

\* a clear pass with more invocations than pixels has completed
ClearDonePadded ==
  /\ ClearJustDone
  /\ Ceil(WIDTH * HEIGHT, WorkgroupSize) * WorkgroupSize > WIDTH * HEIGHT
  /\ \A k \in DOMAIN outputColorBuffer : outputColorBuffer[k] = ClearValue

(***************************************************************************)
(* C7  Out-of-range composite calls.                                       *)
(***************************************************************************)
\* invocation i applies an atomicMin of a color_pixel call in this step
CompositeStep(i) ==
  /\ main(i)
  /\ inv[i].st = "loop"
  /\ wrote' = wrote \cup {i}
  /\ (inv[i].c # 0 \/ Covers(inv[i].tri, inv[i].x, inv[i].y))

\* C7: a color_pixel call with x >= screenWidth or y >= screenHeight changes
\* no entry of the pixel buffer.
OutOfRangeCompositeIsNoOp ==
  [][\A i \in DOMAIN inv :
       (CompositeStep(i) /\ ~ InRange(inv[i].x, inv[i].y))
         => outputColorBuffer' = outputColorBuffer]_vars

(***************************************************************************)
(* C8  Triangles reaching beyond the canvas.                               *)
(***************************************************************************)
\* is_off_screen (wgsl:230-236) of a projected vertex
is_off_screen(v) ==
  \/ QLt(v.x, QI(0)) \/ QLt(uniforms.screenWidth, v.x)
  \/ QLt(v.y, QI(0)) \/ QLt(uniforms.screenHeight, v.y)

ReachesBeyond(k) == \E n \in 1 .. 3 : is_off_screen(Projected(Triangle(k))[n])

\* C8: after the rasterizer pass, every in-canvas pixel inside a triangle that
\* has a projected vertex off screen has been composited with the triangle's
\* shade: none of its channels is above that shade.
BeyondCanvasStillFilled ==
  PassDone =>
    \A k \in TriangleIds : ReachesBeyond(k) =>
      \A p \in Covering_k(k) : \A c \in Channels :
        outputColorBuffer[Entry(p, c)] <= ShadeOf(k)

(***************************************************************************)
(* C9  Excess invocations of the clear pass.                               *)
(***************************************************************************)
\* C9: a step of a clear invocation whose id is at or beyond WIDTH*HEIGHT, all
\* of whose indices are at or beyond WIDTH*HEIGHT*3, stores nothing: it leaves
\* every entry of the pixel buffer as it was.
ClearExcessStoresNothing ==
  [][\A i \in DOMAIN inv :
       (clear(i) /\ i >= WIDTH * HEIGHT) => outputColorBuffer' = outputColorBuffer]_vars

PartialTriangleRejected ==
  (vertexCount % 3 # 0) =>
    /\ \A k \in DOMAIN queue : queue[k].op \notin {"clear", "raster"}
    /\ "vertex" \notin oob

(***************************************************************************)
(* C12  Degenerate triangles.                                              *)
(***************************************************************************)
\* u.z of barycentric: it does not depend on the point p
DetTerm(v1, v2, v3) ==
  QSub(QMul(QSub(v3.x, v1.x), QSub(v2.y, v1.y)),
       QMul(QSub(v2.x, v1.x), QSub(v3.y, v1.y)))
\* the branch abs(u.z) < 1.0 of barycentric is taken for the projected tri
Degenerate(tri) == QLt(QAbs(DetTerm(tri[1], tri[2], tri[3])), QI(1))
Sentinel == Vec3(QI(0 - 1), QI(1), QI(1))
\* the uniforms in place are those of the rasterizer pass running or last run
RasterUniforms == (gpu = "running" /\ HeadIs({"raster"})) \/ frame.rastered

\* C12: for a triangle with |u.z| < 1, barycentric returns (-1, 1, 1) at every
\* candidate pixel that draw_triangle visits, and the invocation of that
\* triangle has applied no atomicMin.
DegeneratePaintsNothing ==
  RasterUniforms =>
    /\ \A i \in DOMAIN inv :
         (inv[i].st = "loop" /\ Degenerate(Projected(inv[i].tri))) =>
           LET v == Projected(inv[i].tri)
           IN  barycentric(v[1], v[2], v[3],
                           [x |-> QI(inv[i].x), y |-> QI(inv[i].y)]) = Sentinel
    /\ \A i \in wrote \cap TriangleIds : ~ Degenerate(Projected(Triangle(i)))

\* a pass over degenerate triangles with candidate pixels has completed and
\* has left the cleared buffer as it was
DegenerateSkipped ==
  /\ PassDone
  /\ \A k \in TriangleIds :
       LET box == Box(Projected(Triangle(k)))
       IN  /\ Degenerate(Projected(Triangle(k)))
           /\ box.startX <= box.endX /\ box.startY <= box.endY
  /\ \A k \in DOMAIN outputColorBuffer : outputColorBuffer[k] = ClearValue

(***************************************************************************)
(* C13  Range of the entries.                                              *)
(***************************************************************************)
\* R of draw_triangle before its conversion to u32
RawShade(v1) == QSub(QMul(v1.z, QI(ShadeScale)), QI(ShadeOffset))

\* C13: in every reachable state, before and after the first clear pass and
\* over any sequence of frames, every entry of the pixel buffer is in 0..255,
\* whatever the shades that the rasterizer computes.
EntriesInRange ==
  \A k \in DOMAIN outputColorBuffer : outputColorBuffer[k] \in 0 .. ClearValue

\* a pass has completed in which one triangle computed a shade below 0, which
\* its pixels now hold as 0, and another one a shade above 255
ExtremeShadesComposited ==
  /\ PassDone
  /\ \E j, k \in TriangleIds :
       /\ QLt(RawShade(project(Triangle(j)[1])), QI(0))
       /\ QLt(QI(ClearValue), RawShade(project(Triangle(k)[1])))
       /\ \E p \in Pixels :
            /\ p \in Calls(j) /\ p \in Calls(k)
            /\ outputColorBuffer[Entry(p, 0)] = 0
       /\ \E p \in Pixels :
            /\ p \notin Calls(j) /\ p \in Calls(k)
            /\ outputColorBuffer[Entry(p, 0)] = ClearValue

(***************************************************************************)
(* C14  Entries only go down between two clear passes.                     *)
(***************************************************************************)
\* C14: a step taken while no clear dispatch is running, so any step between
\* the completion of a clear pass and the start of the next one, increases no
\* entry of the pixel buffer: each entry stays or becomes strictly smaller.
DownwardOnlyOutsideClear ==
  [][(~ (gpu = "running" /\ HeadIs({"clear"}))) =>
       \A k \in DOMAIN outputColorBuffer :
         outputColorBuffer'[k] <= outputColorBuffer[k]]_vars

\* the rasterizer pass is running and has lowered an entry of the cleared buffer
CompositeLowered ==
  /\ gpu = "running"
  /\ HeadIs({"raster"})
  /\ \E k \in DOMAIN outputColorBuffer : outputColorBuffer[k] < ClearValue

(***************************************************************************)
(* C15  Termination of the rasterizer invocations.                         *)
(***************************************************************************)
\* C15: every rasterizer invocation leaves the loops of draw_triangle, so no
\* step of an invocation inside the loops brings it back to the state in which
\* it entered them (the loops are deterministic: from there they would repeat).
LoopNeverRestarts ==
  [][\A i \in DOMAIN inv :
       (inv[i].st = "loop" /\ main(i)) => inv'[i] # Enter(i)]_vars

(***************************************************************************)
(* C16  No state is carried from one frame to the next.                    *)
(***************************************************************************)
\* every color_pixel call of the pass lands inside the buffer, in its own
\* pixel or in another one
CallsInBuffer ==
  \A j \in TriangleIds : \A q \in Calls(j) : pixelID(q[1], q[2]) + 2 < BufLen

\* The buffer that the vertex list, the transform and the dimensions of the
\* frame determine: 255 lowered to the least shade of the calls on each entry.
FrameImage ==
  [k \in 0 .. (BufLen - 1) |->
     MinOf({ClearValue} \cup
           { ShadeOf(j) : j \in { t \in TriangleIds :
               \E q \in Calls(t) : \E c \in Channels :
                 (pixelID(q[1], q[2]) + c) % U32Mod = k } })]

frag_main(x, y, c) ==
  (((u32(QAdd(QI(x), QMul(QI(y), QI(uniformBuffer[1])))) * 3) % U32Mod) + c) % U32Mod

\* The bits of the f32 value k, a power of two, read as a u32.
f32bits(k) == (127 + (CHOOSE e \in 0 .. 30 : 2 ^ e = k)) * (2 ^ 23)

\* frag_main of wgsl:356-366, whose Uniforms are u32 while the host writes a
\* Float32Array (main.js:180-183), and whose index has + 1u
frag_main_u32(x, y, c) ==
  LET index == ((((x + y * f32bits(uniformBuffer[1])) % U32Mod) * 3) + 1) % U32Mod
  IN  (index + c) % U32Mod

\* C17: while the fullscreen pass runs, frag_main reads channel c of every
\* pixel (x, y) of the canvas from the entry (x + y*WIDTH)*3 + c, which is
\* where color_pixel writes it, and no two pixels share an entry.
DisplayReadsCompositorEntries ==
  gpu = "display" =>
    /\ \A p \in Pixels : \A c \in Channels :
         /\ frag_main(p[1], p[2], c) = Entry(p, c)
         /\ frag_main_u32(p[1], p[2], c) = Entry(p, c)
         /\ (pixelID(p[1], p[2]) + c) % U32Mod = Entry(p, c)
    /\ \A p, q \in Pixels : \A c, d \in Channels :
         Entry(p, c) = Entry(q, d) => (p = q /\ c = d)

(***************************************************************************)
(* f32 arithmetic with its rounding: every operation gives the f32 nearest *)
(* to the exact result (ties to even), an f32 having MantBits bits of      *)
(* precision.  The range of the exponent is not bounded.                   *)
(***************************************************************************)
FAdd(a, b) == f32(QAdd(a, b))
FSub(a, b) == f32(QSub(a, b))
FMul(a, b) == f32(QMul(a, b))
FDiv(a, b) == f32(QDiv(a, b))

cross_f32(a, b) ==
  Vec3(FSub(FMul(a.y, b.z), FMul(a.z, b.y)),
       FSub(FMul(a.z, b.x), FMul(a.x, b.z)),
       FSub(FMul(a.x, b.y), FMul(a.y, b.x)))

\* u of barycentric in f32
UTerms(v1, v2, v3, p) ==
  cross_f32(Vec3(FSub(v3.x, v1.x), FSub(v2.x, v1.x), FSub(v1.x, p.x)),
            Vec3(FSub(v3.y, v1.y), FSub(v2.y, v1.y), FSub(v1.y, p.y)))

\* barycentric with the first weight computed as 1 - u.x/u.z
barycentric_f32_dropped(v1, v2, v3, p) ==
  LET u == UTerms(v1, v2, v3, p)
  IN  IF QLt(QAbs(u.z), QI(1))
      THEN Vec3(QI(0 - 1), QI(1), QI(1))
      ELSE Vec3(FSub(QI(1), FDiv(u.x, u.z)), FDiv(u.y, u.z), FDiv(u.x, u.z))

\* barycentric (wgsl:176-187) in f32
barycentric_f32(v1, v2, v3, p) ==
  LET u == UTerms(v1, v2, v3, p)
  IN  IF QLt(QAbs(u.z), QI(1))
      THEN Vec3(QI(0 - 1), QI(1), QI(1))
      ELSE Vec3(FSub(QI(1), FDiv(FAdd(u.x, u.y), u.z)),
                FDiv(u.y, u.z),
                FDiv(u.x, u.z))

\* the projected triangle and the candidate pixel as the f32 values that
\* draw_triangle passes to barycentric
F32Vertex(v) == Vec3(f32(v.x), f32(v.y), f32(v.z))
F32Triangle(tri) ==
  << F32Vertex(project(tri[1])), F32Vertex(project(tri[2])),
     F32Vertex(project(tri[3])) >>
F32Point(x, y) == [x |-> f32(QI(x)), y |-> f32(QI(y))]
\* the weights that invocation i, inside the loops, gets for its candidate pixel
WeightsOf(i) ==
  LET v == F32Triangle(inv[i].tri)
  IN  barycentric_f32(v[1], v[2], v[3], F32Point(inv[i].x, inv[i].y))
\* abs(u.z) >= 1.0 for the triangle of invocation i
NonDegenerateAt(i) ==
  LET v == F32Triangle(inv[i].tri)
  IN  ~ QLt(QAbs(UTerms(v[1], v[2], v[3], F32Point(inv[i].x, inv[i].y)).z), QI(1))
InLoops(i) == RasterUniforms /\ inv[i].st = "loop"
WeightSum(bc) == QAdd(QAdd(bc.x, bc.y), bc.z)
\* 2^(1 - MantBits): the distance from 1 to the next f32
Epsilon == Q(1, 2 ^ (MantBits - 1))

(***************************************************************************)
(* C18  The weights sum to 1.                                              *)
(***************************************************************************)
\* C18 as stated: for a triangle with |u.z| >= 1, the three weights that
\* barycentric returns sum to 1 exactly.
WeightsSumToOne ==
  \A i \in DOMAIN inv :
    (InLoops(i) /\ NonDegenerateAt(i)) => QEq(WeightSum(WeightsOf(i)), QI(1))

\* C18 amended: for a triangle with |u.z| >= 1, the three weights that
\* barycentric returns sum to 1 up to the rounding of its five operations:
\* |x + y + z - 1| <= 2^(1 - MantBits) * (|x| + 2|y| + 2|z|).
WeightsSumNearOne ==
  \A i \in DOMAIN inv :
    (InLoops(i) /\ NonDegenerateAt(i)) =>
      LET bc == WeightsOf(i)
      IN  QLe(QAbs(QSub(WeightSum(bc), QI(1))),
              QMul(Epsilon,
                   QAdd(QAbs(bc.x), QMul(QI(2), QAdd(QAbs(bc.y), QAbs(bc.z))))))

\* an invocation is at a candidate pixel whose weights do not sum to 1
WeightsRounded ==
  \E i \in DOMAIN inv :
    /\ InLoops(i)
    /\ NonDegenerateAt(i)
    /\ ~ QEq(WeightSum(WeightsOf(i)), QI(1))

(***************************************************************************)
(* C19  The vertices of a triangle classified against it.                  *)
(***************************************************************************)
\* the weights that barycentric returns for vertex n of triangle k
VertexWeights(k, n) ==
  LET v == F32Triangle(Triangle(k))
  IN  barycentric_f32(v[1], v[2], v[3], [x |-> v[n].x, y |-> v[n].y])
\* weight n is 1 and the other two are 0
UnitWeights(n) ==
  Vec3(QI(IF n = 1 THEN 1 ELSE 0), QI(IF n = 2 THEN 1 ELSE 0),
       QI(IF n = 3 THEN 1 ELSE 0))
NonDegenerate(k) ==
  LET v == F32Triangle(Triangle(k))
  IN  ~ QLt(QAbs(UTerms(v[1], v[2], v[3], [x |-> v[1].x, y |-> v[1].y]).z), QI(1))

\* the rasterizer dispatch has started and no invocation has run yet
RasterStarting ==
  gpu = "running" /\ HeadIs({"raster"}) /\ \A i \in DOMAIN inv : inv[i].st = "todo"

\* C19 as stated: for every triangle handed to a rasterizer pass, each of its
\* vertices gets one weight equal to 1 and two equal to 0, and so is
\* classified inside.
VertexIsCorner ==
  RasterStarting =>
    \A k \in TriangleIds : \A n \in 1 .. 3 :
      /\ VertexWeights(k, n) = UnitWeights(n)
      /\ Inside(VertexWeights(k, n))

\* C19 amended: for every triangle with |u.z| >= 1 handed to a rasterizer
\* pass, vertex n gets weight n equal to 1 and the other two equal to 0, and
\* so is classified inside.
VertexIsCornerNonDegenerate ==
  RasterStarting =>
    \A k \in TriangleIds : NonDegenerate(k) =>
      \A n \in 1 .. 3 :
        /\ VertexWeights(k, n) = UnitWeights(n)
        /\ Inside(VertexWeights(k, n))

\* an invocation is classifying a pixel that is the second or third vertex of
\* its triangle, which has |u.z| >= 1
VertexClassified ==
  \E i \in DOMAIN inv \cap TriangleIds :
    /\ InLoops(i)
    /\ NonDegenerate(i)
    /\ \E n \in 2 .. 3 :
         LET v == F32Triangle(Triangle(i))
         IN  F32Point(inv[i].x, inv[i].y) = [x |-> v[n].x, y |-> v[n].y]
    /\ WeightsOf(i) \in { UnitWeights(2), UnitWeights(3) }

(***************************************************************************)
(* C20  Vertices on the view axis.                                         *)
(***************************************************************************)
\* the vertex v has clip coordinates x' = 0, y' = 0 and w' > 0
OnViewAxis(v) ==
  LET m == uniforms.modelViewProjectionMatrix
  IN  /\ QEq(MatRow(m.r0, v), QI(0))
      /\ QEq(MatRow(m.r1, v), QI(0))
      /\ QLt(QI(0), MatRow(m.r3, v))

\* C20: project maps every vertex on the view axis that a rasterizer pass is
\* handed to the centre of the canvas, (screenWidth/2, screenHeight/2).
OnAxisProjectsToCentre ==
  RasterStarting =>
    \A k \in DOMAIN vertexBuffer :
      OnViewAxis(vertexBuffer[k]) =>
        /\ QEq(project(vertexBuffer[k]).x, QDiv(uniforms.screenWidth, QI(2)))
        /\ QEq(project(vertexBuffer[k]).y, QDiv(uniforms.screenHeight, QI(2)))

(***************************************************************************)
(* C21  The clear pass run twice.                                          *)
(***************************************************************************)
RECURSIVE clearFrom(_, _, _)
\* the buffers that the clear invocations id .. n - 1, run one after the
\* other, can leave from the buffers of bufs
clearFrom(bufs, id, n) ==
  IF id >= n THEN bufs
  ELSE clearFrom(UNION { clearResults(b, id) : b \in bufs }, id + 1, n)
\* the buffers that the clear dispatch of addComputePass can leave from buf
clearPass(buf) ==
  clearFrom({ buf }, 0, addComputePass(Persp).passes[1].n * WorkgroupSize)
AllClear == [k \in 0 .. (BufLen - 1) |-> ClearValue]

\* C21: from the buffer contents of any reachable state, a clear pass leaves
\* every entry equal to 255, and a second clear pass run on its result leaves
\* the same buffer.
ClearIdempotent ==
  LET once == clearPass(outputColorBuffer)
      twice == UNION { clearPass(b) : b \in once }
  IN  once = { AllClear } /\ twice = once

\* a clear dispatch is running over a buffer in which a frame has drawn: some
\* invocations have made their stores, some entries still hold a shade
ClearOverDrawnFrame ==
  /\ gpu = "running"
  /\ HeadIs({"clear"})
  /\ \E i \in DOMAIN inv : inv[i].st = "done"
  /\ \E k \in DOMAIN outputColorBuffer : outputColorBuffer[k] \notin {0, ClearValue}

(***************************************************************************)
(* C22  loadModel.                                                         *)
(***************************************************************************)
\* C22: the array that loadModel returns has 3 floats per index, and its
\* elements 3i, 3i+1, 3i+2 are the three positions of vertex indices[i], for
\* every i in the order of the index array.
LoadModelExpandsIndices ==
  load.st = "returned" =>
    /\ Len(load.verticesArray) = 3 * Len(load.indices)
    /\ \A i \in 0 .. (Len(load.indices) - 1) : \A c \in 0 .. 2 :
         Elem(load.verticesArray, 3 * i + c) =
           Elem(load.positions, 3 * Elem(load.indices, i) + c)

\* loadModel has returned for an index array that names a vertex twice and
\* the vertices out of their order
LoadedRepeatedVertex ==
  /\ load.st = "returned"
  /\ Len(load.indices) = 3
  /\ Elem(load.indices, 0) = Elem(load.indices, 2)
  /\ Elem(load.indices, 1) < Elem(load.indices, 0)
  /\ Len(vertexBuffer) = 3

(***************************************************************************)
(* C23  The channels of a pixel are written one by one.                    *)
(***************************************************************************)
\* two channels of the pixel p hold the shades of two different triangles
\* that both call color_pixel for p
ChannelsMixed(p) ==
  \E j, k \in TriangleIds : \E c, d \in Channels :
    /\ p \in Calls(j) /\ p \in Calls(k)
    /\ ShadeOf(j) # ShadeOf(k)
    /\ outputColorBuffer[Entry(p, c)] = ShadeOf(j)
    /\ outputColorBuffer[Entry(p, d)] = ShadeOf(k)

\* C23: a step of color_pixel changes at most one entry of the pixel buffer,
\* so the three channels of a pixel are never updated as a group; a pixel
\* whose channels hold the shades of two different triangles is met only
\* while the rasterizer dispatch is running: none is left when it completes.
ChannelsWrittenOneByOne ==
  [][/\ \A i \in DOMAIN inv :
          (Stepped(i) /\ i \in wrote') =>
            Cardinality({ k \in DOMAIN outputColorBuffer :
                            outputColorBuffer'[k] # outputColorBuffer[k] }) <= 1
     /\ (dispatchDone /\ frame'.rastered /\ AllCallsInRange)
          => ~ \E p \in Pixels : ChannelsMixed(p)]_vars

\* while two triangles composite different shades to one pixel, one channel of
\* it holds the shade of the one and another channel the shade of the other
ChannelsFromTwoTriangles ==
  /\ gpu = "running"
  /\ HeadIs({"raster"})
  /\ AllCallsInRange
  /\ \E p \in Pixels :
       /\ ChannelsMixed(p)
       /\ \E i, j \in DOMAIN inv :
            /\ i # j
            /\ inv[i].st = "loop" /\ inv[j].st = "loop"
            /\ <<inv[i].x, inv[i].y>> = p

(***************************************************************************)
(* C24  The acceptance test of draw_triangle.                              *)
(***************************************************************************)
\* the weights that barycentric returns to invocation i for its candidate pixel
CandidateWeights(i) ==
  LET v == Projected(inv[i].tri)
  IN  barycentric(v[1], v[2], v[3], [x |-> QI(inv[i].x), y |-> QI(inv[i].y)])
AllNonNegative(bc) == QLe(QI(0), bc.x) /\ QLe(QI(0), bc.y) /\ QLe(QI(0), bc.z)
\* invocation i is at a candidate pixel for which barycentric has just returned
AtCandidate(i) == inv[i].st = "loop" /\ inv[i].c = 0

color(k, q) ==
  u32(QSub(QMul(DepthAt(k, q), QI(ShadeScale)), QI(ShadeOffset)))

\* C25: at every pixel that a triangle paints, the shade passed to color_pixel
\* is w*50 - 400 for the depth proxy w of the triangle's first vertex, the same
\* at every pixel and not interpolated with the weights, in the draw_triangle
\* of wgsl:198-219 and in the one of wgsl:53-75.
ShadeIsFlat ==
  RasterStarting =>
    \A k \in TriangleIds : \A q \in Calls(k) :
      /\ ShadeOf(k) = u32(RawShade(project(Triangle(k)[1])))
      /\ color(k, q) = ShadeOf(k)

(***************************************************************************)
(* C26  One invocation per triangle, with the uniforms of the frame.       *)
(***************************************************************************)
\* C26: while the rasterizer pass of a frame runs and after it, the uniforms
\* hold the screen size, the vertex count and a matrix of the host; an
\* invocation inside the loops of draw_triangle is the one of its triangle;
\* and when the pass has completed, every triangle with a pixel to paint has
\* been filled by its own invocation and by no other.
EveryTriangleRasterized ==
  RasterUniforms =>
    /\ uniforms.screenWidth = QI(WIDTH)
    /\ uniforms.screenHeight = QI(HEIGHT)
    /\ uniforms.vertexCount = QI(vertexCount)
    /\ uniforms.modelViewProjectionMatrix \in Matrices
    /\ \A i \in DOMAIN inv :
         inv[i].st = "loop" => (i \in TriangleIds /\ inv[i].tri = Triangle(i))
    /\ frame.rastered =>
         wrote = { k \in TriangleIds : Calls(k) # {} }

(***************************************************************************)
(* C27  The candidate pixels of a bounding box.                            *)
(***************************************************************************)
\* the bounding box of the triangle of the invocation state s
BoxOf(s) == Box(Projected(s.tri))
InBox(s) ==
  /\ BoxOf(s).startX <= s.x /\ s.x <= BoxOf(s).endX
  /\ BoxOf(s).startY <= s.y /\ s.y <= BoxOf(s).endY
\* t is at the pixel that follows the pixel of s in the order of the loops:
\* down the column, then to the top of the next column
BoxSuccessor(s, t) ==
  \/ s.y < BoxOf(s).endY /\ t.x = s.x /\ t.y = s.y + 1
  \/ s.y = BoxOf(s).endY /\ s.x < BoxOf(s).endX
       /\ t.x = s.x + 1 /\ t.y = BoxOf(s).startY

\* C27: an invocation with a bounding box in which startX <= endX and
\* startY <= endY classifies (startX, startY) first, goes from a pixel only to
\* the one that follows it in the box, returns only from (endX, endY), and is
\* never at a pixel outside the box: every pixel of the box is classified
\* exactly once, the maximum bounds included, and no other pixel is.
BoxVisitedOnce ==
  [][\A i \in DOMAIN inv :
       Stepped(i) =>
         LET s == inv[i]
             t == inv'[i]
         IN  /\ (s.st = "todo" /\ t.st = "loop") =>
                  (t.x = BoxOf(t).startX /\ t.y = BoxOf(t).startY)
             /\ (s.st = "todo" /\ t.st = "done" /\ t.tri # << >>) =>
                  (BoxOf(t).startX > BoxOf(t).endX \/ BoxOf(t).startY > BoxOf(t).endY)
             /\ (s.st = "loop" /\ t.st = "loop" /\ << t.x, t.y >> # << s.x, s.y >>) =>
                  BoxSuccessor(s, t)
             /\ (s.st = "loop" /\ t.st = "done") =>
                  (s.x = BoxOf(s).endX /\ s.y = BoxOf(s).endY)
             /\ (t.st = "loop") => InBox(t)]_vars

(***************************************************************************)
(* C28  Grey pixels.                                                       *)
(***************************************************************************)
\* C28: when the rasterizer pass of a frame has completed, the three channels
\* of every pixel of the buffer are equal, whatever the triangles and the
\* interleaving of the atomicMin steps were.
ChannelsEqualAfterPass ==
  PassDone =>
    \A p \in Pixels :
      /\ outputColorBuffer[Entry(p, 0)] = outputColorBuffer[Entry(p, 1)]
      /\ outputColorBuffer[Entry(p, 1)] = outputColorBuffer[Entry(p, 2)]

(***************************************************************************)
(* C29  The query slots of the timestamps.                                 *)
(***************************************************************************)
\* the query indices of the writeTimestamp commands submitted and not yet
\* executed, in their order
RECURSIVE TimestampIndices(_)
TimestampIndices(q) ==
  IF q = << >> THEN << >>
  ELSE (IF q[1].op = "ts" THEN << q[1].n >> ELSE << >>) \o TimestampIndices(Tail(q))
\* the label that draw gives to its k-th timestamp call (main.js:64-68)
LabelOf(k) ==
  IF k = 0 THEN "undefined" ELSE IF k = 1 THEN "compute pass" ELSE "fullscreen pass"

\* C29: between two calls of draw queryIndex is 0; every writeTimestamp
\* submitted has an index in 0..maxNumberOfQueries-1, the indices following
\* each other as 0, 1, 2, 0, 1, 2, ... up to the 2 of the last frame
\* submitted; and every label recorded is the one of its slot.
TimestampSlotsStable ==
  LET ts == TimestampIndices(queue)
  IN  /\ queryIndex = 0
      /\ \A k \in DOMAIN ts : ts[k] \in 0 .. (maxNumberOfQueries - 1)
      /\ \A k \in DOMAIN ts : k > 1 => ts[k] = (ts[k - 1] + 1) % maxNumberOfQueries
      /\ ts # << >> => ts[Len(ts)] = maxNumberOfQueries - 1
      /\ \A k \in DOMAIN queryLabelMap : queryLabelMap[k] = LabelOf(k)
      /\ DOMAIN queryLabelMap \in { {}, 0 .. (maxNumberOfQueries - 1) }

\* after the first frame was read back, the timestamps of MaxPending more
\* frames are submitted and none of them has executed
TimestampsOfLaterFrames ==
  /\ printedTimestamps
  /\ Pending = MaxPending
  /\ Len(TimestampIndices(queue)) = maxNumberOfQueries * MaxPending
  /\ \A k \in DOMAIN TimestampIndices(queue) :
       TimestampIndices(queue)[k] = (k - 1) % maxNumberOfQueries
  /\ DOMAIN queryLabelMap = 0 .. (maxNumberOfQueries - 1)

(***************************************************************************)
(* C30  The frame loop.                                                    *)
(***************************************************************************)
RECURSIVE Passes(_)
\* the dispatches and render passes among the operations q, in their order
Passes(q) ==
  IF q = << >> THEN << >>
  ELSE (IF q[1].op \in {"clear", "raster", "display"} THEN << q[1].op >> ELSE << >>)
       \o Passes(Tail(q))
\* the pass that follows the pass op in the frames that draw records
PassAfter(op) ==
  IF op = "clear" THEN "raster" ELSE IF op = "raster" THEN "display" ELSE "clear"

\* what holds of the frames submitted between two steps of the host
FramesInOrder ==
  LET ps == Passes(queue)
  IN  /\ \A k \in DOMAIN ps : k > 1 => ps[k] = PassAfter(ps[k - 1])
      /\ ps # << >> => ps[Len(ps)] = "display"
      /\ ~ printedTimestamps => Pending <= 1
      /\ hostPc = "await" =>
           /\ ~ printedTimestamps
           /\ mapped \/ \E k \in DOMAIN queue : queue[k].op = "copy"
      /\ printedTimestamps => hostPc = "draw"

\* C30: the passes submitted follow each other as clear, rasterizer,
\* fullscreen, frame after frame; a step of draw submits one frame, whole;
\* no second frame is drawn before the read-back of the first has resolved,
\* and it does resolve; a next draw is always scheduled or waiting for that
\* read-back, and draw is called again and again.
FrameLoopRuns ==
  /\ []FramesInOrder
  /\ [][draw =>
          /\ Passes(queue') = Passes(queue) \o << "clear", "raster", "display" >>
          /\ Pending' = Pending + 1]_vars
  /\ <>printedTimestamps
  /\ []<><<draw>>_vars

\* a frame drawn after the read-back of the first one has been displayed and
\* the frame after it is submitted, whole
LaterFrameDisplayed ==
  /\ printedTimestamps
  /\ frame.displayed
  /\ hostPc = "draw"
  /\ HeadIs({"ts"})
  /\ Front.n = maxNumberOfQueries - 1
  /\ Passes(queue) = << "clear", "raster", "display" >>

====
